---- MODULE Spec2Model ----
(***************************************************************************)
(* A model of the store-search chatbot of src/src/app/lib/chatbot.ts:      *)
(* the AIModels singleton, cosineSimilarity and processQuery.              *)
(*                                                                         *)
(* Numbers.  Category scores are held in tenths (0.5 is 5), cosine         *)
(* similarities in hundredths (0.8 is 80), so a composite score            *)
(* categoryScore * (1 + similarity) is held in thousandths and the         *)
(* threshold 0.5 is 500.  The vectors of the model have integer norms, so  *)
(* that dot / (normA * normB) is exact in hundredths.                      *)
(***************************************************************************)
EXTENDS Integers, Sequences, FiniteSets, TLC

VARIABLES
    storesData,   \* the imported catalog (chatbot.ts:12), never written
    classifier,   \* AIModels.classifier: 0 is null, n > 0 the n-th pipeline() promise
    extractor,    \* AIModels.extractor:  0 is null, n > 0 the n-th pipeline() promise
    pipelines,    \* the promises pipeline() has returned, in call order
    calls,        \* one record per processQuery invocation slot
    hadFailure    \* history: some earlier call returned from the catch block

vars == <<storesData, classifier, extractor, pipelines, calls, hadFailure>>

----------------------------------------------------------------------------
(* Bounds of the model *)

MaxStores == 6

MaxCalls == 2

----------------------------------------------------------------------------
(* Fixed-point units and the constants of processQuery *)

SimScale == 100

CatScale == 10

\* chatbot.ts:117  0.5, in thousandths
Threshold == (CatScale * SimScale) \div 2

\* chatbot.ts:119  slice(0, 5)
TopN == 5

----------------------------------------------------------------------------
(* Sequence helpers *)

Range(s) == {s[i] : i \in DOMAIN s}

SetMax(S) == CHOOSE x \in S : \A y \in S : y <= x

Take(s, n) == SubSeq(s, 1, IF Len(s) < n THEN Len(s) ELSE n)

RECURSIVE SeqsUpTo(_, _)
SeqsUpTo(S, n) ==
    IF n = 0 THEN {<<>>}
    ELSE LET shorter == SeqsUpTo(S, n - 1)
         IN  shorter \cup {Append(s, x) : s \in {t \in shorter : Len(t) = n - 1}, x \in S}

SeqsOfLen(S, n) == {s \in SeqsUpTo(S, n) : Len(s) = n}

----------------------------------------------------------------------------
(* The catalog: Store records (chatbot.ts:19-28); the display-only fields  *)
(* name, location, product_types, hours and contact are left out.          *)

StoreKinds ==
    { [category |-> "pharmacy",   product_embeddings |-> << <<-1, 0>> >>],
      [category |-> "restaurant", product_embeddings |-> << <<0, 0>>, <<4, 3>> >>],
      [category |-> "pharmacy",   product_embeddings |-> << >>] }

MkStore(i, kind) ==
    [id |-> i, category |-> kind.category, product_embeddings |-> kind.product_embeddings]

Catalogs ==
    { [i \in 1..Len(ks) |-> MkStore(i, ks[i])] : ks \in SeqsUpTo(StoreKinds, MaxStores) }

----------------------------------------------------------------------------
(* Queries: strings as sequences of characters *)

Whitespace == {" ", "\t"}

Queries == { <<>>, <<" ">>, <<" ", "\t">>, <<" ", "a">> }

RECURSIVE TrimStart(_)
TrimStart(s) ==
    IF s # <<>> /\ Head(s) \in Whitespace THEN TrimStart(Tail(s)) ELSE s

RECURSIVE TrimEnd(_)
TrimEnd(s) ==
    IF s # <<>> /\ s[Len(s)] \in Whitespace THEN TrimEnd(SubSeq(s, 1, Len(s) - 1)) ELSE s

Trim(s) == TrimEnd(TrimStart(s))

IsBlankNoTrim(query) == query = <<>>

\* chatbot.ts:80  !query || query.trim() === ''
IsBlank(query) == query = <<>> \/ Trim(query) = <<>>

----------------------------------------------------------------------------
(* cosineSimilarity, chatbot.ts:65-76.  Both vectors are always present  *)
(* here (queryVector comes from Array.from, the catalog's embeddings are  *)
(* arrays), so of the guard of line 66 the length test is the live part.  *)

RECURSIVE Dot(_, _)
Dot(a, b) == IF a = <<>> THEN 0 ELSE Head(a) * Head(b) + Dot(Tail(a), Tail(b))

Isqrt(n) == CHOOSE r \in 0..n : r * r <= n /\ (r + 1) * (r + 1) > n

Norm(a) == Isqrt(Dot(a, a))

cosineSimilarity(vecA, vecB) ==
    IF Len(vecA) # Len(vecB) THEN 0
    ELSE LET dotProduct == Dot(vecA, vecB)
             normA == Norm(vecA)
             normB == Norm(vecB)
         IN  IF normA = 0 \/ normB = 0 THEN 0
             ELSE (dotProduct * SimScale) \div (normA * normB)

----------------------------------------------------------------------------
(* The inference boundary.  classifier(query, labels) and extractor(query) *)
(* are black boxes: each either raises or returns a value whose shape the  *)
(* code does not validate.                                                 *)

ClsScores == {0, 5, 10}

\* chatbot.ts:85  [...new Set(storesData.map(store => store.category))]
RECURSIVE Dedup(_, _)
Dedup(s, seen) ==
    IF s = <<>> THEN <<>>
    ELSE IF Head(s) \in seen THEN Dedup(Tail(s), seen)
         ELSE <<Head(s)>> \o Dedup(Tail(s), seen \cup {Head(s)})

candidateLabels(stores) == Dedup([i \in DOMAIN stores |-> stores[i].category], {})

ClsResult(kind, labels, scores) == [kind |-> kind, labels |-> labels, scores |-> scores]

NoClsResult == ClsResult("none", <<>>, <<>>)

\* "raise": the awaited call rejects.  "batched": an array of outputs, with no
\* labels property.  "object": {labels, scores}; in two further shapes scores
\* is one short of labels, or the last label is missing from labels.
ClassifyOutcomes(labels) ==
    LET n == Len(labels)
        top == [i \in 1..(n - 1) |-> SetMax(ClsScores)]
    IN  { ClsResult("raise", <<>>, <<>>), ClsResult("batched", <<>>, <<>>) }
        \cup { ClsResult("object", labels, s) : s \in SeqsOfLen(ClsScores, n) }
        \cup (IF n = 0 THEN {}
              ELSE { ClsResult("object", labels, top),
                     ClsResult("object", SubSeq(labels, 1, n - 1), top) })

EmbResult(kind, data) == [kind |-> kind, data |-> data]

NoEmbResult == EmbResult("none", <<>>)

QueryVectors == { <<1, 0>>, <<-1, 0>>, <<3, 4>>, <<1>> }

\* "raise": the awaited call rejects.  "nodata": a value with no data property.
EmbedOutcomes ==
    { EmbResult("raise", <<>>), EmbResult("nodata", <<>>) }
    \cup { EmbResult("tensor", v) : v \in QueryVectors }

----------------------------------------------------------------------------
(* processQuery, chatbot.ts:79-141: the synchronous pieces *)

\* chatbot.ts:88-90  the await rejects, or .labels.map of an array throws a TypeError
ClassifyThrows(res) == res.kind \in {"raise", "batched"}

\* chatbot.ts:90  new Map(labels.map((label, i) => [label, scores[i]]))
categoryScoresOf(res) ==
    [i \in 1..Len(res.labels) |->
        [label   |-> res.labels[i],
         defined |-> i <= Len(res.scores),
         score   |-> IF i <= Len(res.scores) THEN res.scores[i] ELSE 0]]

\* chatbot.ts:93-94  Array.from(undefined) throws a TypeError
EmbedThrows(out) == out.kind \in {"raise", "nodata"}

\* chatbot.ts:99  categoryScores.get(store.category) || 0
categoryScoreOf(categoryScores, category) ==
    LET idx == {i \in DOMAIN categoryScores : categoryScores[i].label = category}
    IN  IF idx = {} THEN 0
        ELSE IF categoryScores[SetMax(idx)].defined
             THEN categoryScores[SetMax(idx)].score
             ELSE 0

\* chatbot.ts:102  let bestProductSimilarity = 0
InitialBest(embeddings, queryVector) == 0

\* chatbot.ts:103-108
RECURSIVE BestFrom(_, _, _, _)
BestFrom(queryVector, embeddings, i, best) ==
    IF i > Len(embeddings) THEN best
    ELSE LET similarity == cosineSimilarity(queryVector, embeddings[i])
         IN  BestFrom(queryVector, embeddings, i + 1,
                      IF similarity > best THEN similarity ELSE best)

bestProductSimilarity(queryVector, embeddings) ==
    BestFrom(queryVector, embeddings, 1, InitialBest(embeddings, queryVector))

\* chatbot.ts:111
finalScore(categoryScore, best) == categoryScore * (SimScale + best)

\* chatbot.ts:97-113
scoreStores(stores, categoryScores, queryVector) ==
    [i \in DOMAIN stores |->
        [id |-> stores[i].id,
         category |-> stores[i].category,
         product_embeddings |-> stores[i].product_embeddings,
         score |-> finalScore(categoryScoreOf(categoryScores, stores[i].category),
                              bestProductSimilarity(queryVector,
                                                    stores[i].product_embeddings))]]

SurvivesAtThreshold(store) == store.score >= Threshold

\* chatbot.ts:117
Survives(store) == store.score > Threshold

FilterStores(scored) == SelectSeq(scored, Survives)

ComesStrictlyBefore(a, b) == a.score > b.score

\* chatbot.ts:118  a stable sort under the comparator b.score - a.score
ComesBefore(a, b) == a.score >= b.score

RECURSIVE InsertSorted(_, _)
InsertSorted(sorted, x) ==
    IF sorted = <<>> THEN <<x>>
    ELSE IF ComesBefore(Head(sorted), x)
         THEN <<Head(sorted)>> \o InsertSorted(Tail(sorted), x)
         ELSE <<x>> \o sorted

RECURSIVE SortFrom(_, _, _)
SortFrom(s, i, acc) ==
    IF i > Len(s) THEN acc ELSE SortFrom(s, i + 1, InsertSorted(acc, s[i]))

SortByScore(s) == SortFrom(s, 1, <<>>)

SliceAll(s) == s

\* chatbot.ts:119
Slice(s) == Take(s, TopN)

\* chatbot.ts:116-119
topStoresOf(scored) == Slice(SortByScore(FilterStores(scored)))

AddToGroupsInFront(groups, store) ==
    IF \E k \in DOMAIN groups : groups[k].category = store.category
    THEN LET k == CHOOSE j \in DOMAIN groups : groups[j].category = store.category
         IN  [groups EXCEPT ![k].stores = Append(@, store)]
    ELSE <<[category |-> store.category, stores |-> <<store>>]>> \o groups

\* chatbot.ts:127-128
AddToGroups(groups, store) ==
    IF \E k \in DOMAIN groups : groups[k].category = store.category
    THEN LET k == CHOOSE j \in DOMAIN groups : groups[j].category = store.category
         IN  [groups EXCEPT ![k].stores = Append(@, store)]
    ELSE Append(groups, [category |-> store.category, stores |-> <<store>>])

\* chatbot.ts:125-131
RECURSIVE GroupFrom(_, _, _)
GroupFrom(top, i, groups) ==
    IF i > Len(top) THEN groups ELSE GroupFrom(top, i + 1, AddToGroups(groups, top[i]))

finalStoreGroups(top) == GroupFrom(top, 1, <<>>)

(* ChatbotResponse, chatbot.ts:36-39; storeGroups is optional *)
Response(msg, has, groups) ==
    [introMessage |-> msg, hasStoreGroups |-> has, storeGroups |-> groups]

NoResponse == Response("", FALSE, <<>>)

PromptMessage == "Please ask me something..."

NoMatchMessage == "I'm sorry, I couldn't find any stores that specifically match your request. Could you try rephrasing?"

FoundMessage == "Based on your request, I found these highly relevant stores:"

TroubleMessage == "I'm having a little trouble thinking right now. Please try again."

responseOfUnchecked(top) == Response(FoundMessage, TRUE, finalStoreGroups(top))

\* chatbot.ts:121-136
responseOf(top) ==
    IF Len(top) = 0 THEN Response(NoMatchMessage, FALSE, <<>>)
    ELSE Response(FoundMessage, TRUE, finalStoreGroups(top))

----------------------------------------------------------------------------
(* AIModels, chatbot.ts:42-59.  pipeline() returns a promise at once; the  *)
(* static field keeps the promise, settled or not.                         *)

ClassifierTask == "zero-shot-classification"

ExtractorTask == "feature-extraction"

AlwaysConstructs(ref) == TRUE

\* chatbot.ts:47 and 54  === null
NeedsConstruction(ref) == ref = 0

\* chatbot.ts:48 and 55
PipelinesAfterGet(ref, task, ps) ==
    IF NeedsConstruction(ref) THEN Append(ps, [task |-> task, state |-> "pending"]) ELSE ps

\* chatbot.ts:48-50 and 55-57: the promise the getter returns
RefAfterGet(ref, ps) == IF NeedsConstruction(ref) THEN Len(ps) + 1 ELSE ref

Constructed(ref) == IF NeedsConstruction(ref) THEN 1 ELSE 0

----------------------------------------------------------------------------
(* processQuery as a process: one step per stretch of code between awaits *)

SeqCalls == {1}

Calls == 1..MaxCalls

IdleCall ==
    [pc |-> "idle", query |-> <<>>, awaiting |-> 0,
     categoryResults |-> NoClsResult, categoryScores |-> <<>>,
     queryEmbeddingOutput |-> NoEmbResult, queryVector |-> <<>>,
     scoredStores |-> <<>>, topStores |-> <<>>, response |-> NoResponse,
     nPipeline |-> 0, nClassify |-> 0, nEmbed |-> 0, afterFailure |-> FALSE]

InitWith(catalogs, slots) ==
    /\ storesData \in catalogs
    /\ classifier = 0
    /\ extractor = 0
    /\ pipelines = <<>>
    /\ calls = [c \in slots |-> IdleCall]
    /\ hadFailure = FALSE

\* chatbot.ts:137-140  the catch block
Caught(c, call) ==
    /\ calls' = [calls EXCEPT ![c] =
                    [call EXCEPT !.pc = "done",
                                 !.response = Response(TroubleMessage, FALSE, <<>>)]]
    /\ hadFailure' = TRUE

\* chatbot.ts:79-83  validation, then the synchronous body of getClassifier
ProcessQuery(c, query) ==
    /\ calls[c].pc = "idle"
    /\ IF IsBlank(query)
       THEN /\ calls' = [calls EXCEPT ![c] =
                            [IdleCall EXCEPT !.pc = "done", !.query = query,
                                             !.afterFailure = hadFailure,
                                             !.response = Response(PromptMessage, FALSE, <<>>)]]
            /\ UNCHANGED <<classifier, pipelines>>
       ELSE /\ pipelines' = PipelinesAfterGet(classifier, ClassifierTask, pipelines)
            /\ classifier' = RefAfterGet(classifier, pipelines)
            /\ calls' = [calls EXCEPT ![c] =
                            [IdleCall EXCEPT !.pc = "awaitClassifier", !.query = query,
                                             !.afterFailure = hadFailure,
                                             !.awaiting = classifier',
                                             !.nPipeline = Constructed(classifier)]]
    /\ UNCHANGED <<storesData, extractor, hadFailure>>

\* chatbot.ts:83-84  the classifier promise has settled; getExtractor runs
ResumeAfterClassifier(c) ==
    /\ calls[c].pc = "awaitClassifier"
    /\ pipelines[calls[c].awaiting].state # "pending"
    /\ IF pipelines[calls[c].awaiting].state = "rejected"
       THEN /\ Caught(c, calls[c])
            /\ UNCHANGED <<extractor, pipelines>>
       ELSE /\ pipelines' = PipelinesAfterGet(extractor, ExtractorTask, pipelines)
            /\ extractor' = RefAfterGet(extractor, pipelines)
            /\ calls' = [calls EXCEPT ![c].pc = "awaitExtractor",
                                      ![c].awaiting = extractor',
                                      ![c].nPipeline = @ + Constructed(extractor)]
            /\ UNCHANGED hadFailure
    /\ UNCHANGED <<storesData, classifier>>

\* chatbot.ts:84-88  the extractor promise has settled; classifier(query, labels) is called
ResumeAfterExtractor(c) ==
    /\ calls[c].pc = "awaitExtractor"
    /\ pipelines[calls[c].awaiting].state # "pending"
    /\ IF pipelines[calls[c].awaiting].state = "rejected"
       THEN Caught(c, calls[c])
       ELSE /\ calls' = [calls EXCEPT ![c].pc = "awaitClassify", ![c].nClassify = @ + 1]
            /\ UNCHANGED hadFailure
    /\ UNCHANGED <<storesData, classifier, extractor, pipelines>>

\* chatbot.ts:88-93  the classification settles as res; extractor(query) is called
ResumeAfterClassify(c, res) ==
    /\ calls[c].pc = "awaitClassify"
    /\ IF ClassifyThrows(res)
       THEN Caught(c, [calls[c] EXCEPT !.categoryResults = res])
       ELSE /\ calls' = [calls EXCEPT ![c].pc = "awaitEmbed",
                                      ![c].categoryResults = res,
                                      ![c].categoryScores = categoryScoresOf(res),
                                      ![c].nEmbed = @ + 1]
            /\ UNCHANGED hadFailure
    /\ UNCHANGED <<storesData, classifier, extractor, pipelines>>

\* chatbot.ts:93-136  the embedding settles as out; scoring, ranking, grouping
ResumeAfterEmbed(c, out) ==
    /\ calls[c].pc = "awaitEmbed"
    /\ IF EmbedThrows(out)
       THEN Caught(c, [calls[c] EXCEPT !.queryEmbeddingOutput = out])
       ELSE LET scored == scoreStores(storesData, calls[c].categoryScores, out.data)
                top    == topStoresOf(scored)
            IN  /\ calls' = [calls EXCEPT ![c].pc = "done",
                                          ![c].queryEmbeddingOutput = out,
                                          ![c].queryVector = out.data,
                                          ![c].scoredStores = scored,
                                          ![c].topStores = top,
                                          ![c].response = responseOf(top)]
                /\ UNCHANGED hadFailure
    /\ UNCHANGED <<storesData, classifier, extractor, pipelines>>

\* the promise of the i-th pipeline() call resolves or rejects (chatbot.ts:48, 55)
SettlePipeline(i, ok) ==
    /\ i \in DOMAIN pipelines
    /\ pipelines[i].state = "pending"
    /\ pipelines' = [pipelines EXCEPT ![i].state = IF ok THEN "resolved" ELSE "rejected"]
    /\ UNCHANGED <<storesData, classifier, extractor, calls, hadFailure>>

\* the caller has its response (Chat.tsx:47) and may call again
Return(c) ==
    /\ calls[c].pc = "done"
    /\ calls' = [calls EXCEPT ![c] = IdleCall]
    /\ UNCHANGED <<storesData, classifier, extractor, pipelines, hadFailure>>

----------------------------------------------------------------------------
(* Spec: one processQuery call on a fresh process, over every catalog, *)
(* query and inference outcome                                          *)

Init == InitWith(Catalogs, SeqCalls)

Next ==
    \/ \E c \in SeqCalls, q \in Queries : ProcessQuery(c, q)
    \/ \E c \in SeqCalls : ResumeAfterClassifier(c)
    \/ \E c \in SeqCalls : ResumeAfterExtractor(c)
    \/ \E c \in SeqCalls, res \in ClassifyOutcomes(candidateLabels(storesData)) : ResumeAfterClassify(c, res)
    \/ \E c \in SeqCalls, out \in EmbedOutcomes : ResumeAfterEmbed(c, out)
    \/ \E i \in DOMAIN pipelines, ok \in BOOLEAN : SettlePipeline(i, ok)

Spec == Init /\ [][Next]_vars

----------------------------------------------------------------------------
(* SpecConc: MaxCalls callers whose calls interleave at the awaits and     *)
(* repeat, over one two-category catalog and a few inference outcomes      *)

ConcCatalogs ==
    { [i \in 1..Len(ks) |-> MkStore(i, ks[i])] :
        ks \in { << [category |-> "pharmacy",   product_embeddings |-> << <<-1, 0>> >>],
                    [category |-> "restaurant", product_embeddings |-> << <<0, 0>>, <<4, 3>> >>] >> } }

ConcQueries == { <<" ">>, <<" ", "a">> }

ConcClassifyOutcomes ==
    { ClsResult("raise", <<>>, <<>>), ClsResult("object", <<"pharmacy", "restaurant">>, <<10, 5>>) }

ConcEmbedOutcomes == { EmbResult("raise", <<>>), EmbResult("tensor", <<-1, 0>>) }

InitConc == InitWith(ConcCatalogs, Calls)

NextConc ==
    \/ \E c \in Calls, q \in ConcQueries : ProcessQuery(c, q)
    \/ \E c \in Calls : ResumeAfterClassifier(c)
    \/ \E c \in Calls : ResumeAfterExtractor(c)
    \/ \E c \in Calls, res \in ConcClassifyOutcomes : ResumeAfterClassify(c, res)
    \/ \E c \in Calls, out \in ConcEmbedOutcomes : ResumeAfterEmbed(c, out)
    \/ \E i \in DOMAIN pipelines, ok \in BOOLEAN : SettlePipeline(i, ok)
    \/ \E c \in Calls : Return(c)

SpecConc == InitConc /\ [][NextConc]_vars

----------------------------------------------------------------------------
(* Vocabulary of the properties *)

Slots == DOMAIN calls

IsDone(c) == calls[c].pc = "done"

\* the call ran the scoring code: both inference calls returned and nothing threw
Scored(c) == IsDone(c) /\ calls[c].queryEmbeddingOutput.kind = "tensor"

AllWhitespace(q) == \A i \in DOMAIN q : q[i] \in {" ", "\t"}

RECURSIVE Flatten(_)
Flatten(groups) ==
    IF groups = <<>> THEN <<>> ELSE Head(groups).stores \o Flatten(Tail(groups))

ReturnedStores(c) == Flatten(calls[c].response.storeGroups)

Survivors(c) == {s \in Range(calls[c].scoredStores) : s.score > 500}

Min2(a, b) == IF a < b THEN a ELSE b

IsTrouble(r) == r.introMessage = TroubleMessage /\ ~r.hasStoreGroups /\ r.storeGroups = <<>>

----------------------------------------------------------------------------
(* C1: the total number of stores over all groups of a response is at most 5. *)
C1_AtMostFive ==
    \A c \in Slots : Len(ReturnedStores(c)) <= 5

\* six stores passed the filter and five were returned
C1_Witness ==
    \E c \in Slots :
        /\ Scored(c)
        /\ Cardinality(Survivors(c)) = 6
        /\ Len(ReturnedStores(c)) = 5

(* C2: every store in a response has composite score > 0.5, and no store   *)
(* whose composite score is <= 0.5 (exactly 0.5 included) is in a response. *)
C2_AboveThreshold ==
    \A c \in Slots :
        /\ \A s \in Range(ReturnedStores(c)) : s.score > 500
        /\ \A t \in Range(calls[c].scoredStores) :
              t.score <= 500 => \A s \in Range(ReturnedStores(c)) : s.id # t.id

\* a store scored exactly 0.5 was left out of a response that holds another store
C2_Witness ==
    \E c \in Slots :
        /\ Scored(c)
        /\ ReturnedStores(c) # <<>>
        /\ \E t \in Range(calls[c].scoredStores) :
              t.score = 500 /\ \A s \in Range(ReturnedStores(c)) : s.id # t.id

TrueBestSimilarity(queryVector, embeddings) ==
    IF embeddings = <<>> THEN 0
    ELSE SetMax({cosineSimilarity(queryVector, embeddings[i]) : i \in DOMAIN embeddings})

(* C3: every store's composite score is categoryScore * (1 + bestSimilarity), *)
(* bestSimilarity being the true maximum of the cosine similarities of the    *)
(* query vector with the store's product embeddings, 0 only when there are    *)
(* none.                                                                      *)
C3_ScoreUsesTrueMaximum ==
    \A c \in Slots :
        Scored(c) =>
            \A i \in DOMAIN calls[c].scoredStores :
                LET s == calls[c].scoredStores[i]
                IN  s.score = categoryScoreOf(calls[c].categoryScores, s.category)
                                * (100 + TrueBestSimilarity(calls[c].queryVector,
                                                            s.product_embeddings))

FirstIndex(top, category) ==
    CHOOSE i \in DOMAIN top :
        /\ top[i].category = category
        /\ \A j \in 1..(i - 1) : top[j].category # category

(* C4: the groups come in the order in which their categories first appear *)
(* in the ranked, capped list; their categories are pairwise distinct; and *)
(* each store of that list is in exactly one group, that of its category,  *)
(* in ranked order within the group.                                       *)
C4_GroupOrder ==
    \A c \in Slots :
        calls[c].response.hasStoreGroups =>
            LET G == calls[c].response.storeGroups
                T == calls[c].topStores
            IN  /\ \A i, j \in DOMAIN G : i # j => G[i].category # G[j].category
                /\ {G[i].category : i \in DOMAIN G} = {T[k].category : k \in DOMAIN T}
                /\ \A i, j \in DOMAIN G :
                      i < j => FirstIndex(T, G[i].category) < FirstIndex(T, G[j].category)
                /\ \A i \in DOMAIN G :
                      G[i].stores = SelectSeq(T, LAMBDA s : s.category = G[i].category)
                /\ Len(Flatten(G)) = Len(T)

\* two groups, in neither alphabetical nor catalog order, the first with two stores
C4_Witness ==
    \E c \in Slots :
        /\ calls[c].response.hasStoreGroups
        /\ Len(calls[c].response.storeGroups) = 2
        /\ calls[c].response.storeGroups[1].category = "restaurant"
        /\ calls[c].response.storeGroups[2].category = "pharmacy"
        /\ Len(calls[c].response.storeGroups[1].stores) >= 2
        /\ storesData[1].category = "pharmacy"

(* C5: a call whose query is empty or all whitespace invokes neither        *)
(* classify nor embed, constructs no backend, and returns the prompt        *)
(* message with no storeGroups.                                            *)
C5_BlankQuery ==
    \A c \in Slots :
        (calls[c].pc # "idle" /\ AllWhitespace(calls[c].query)) =>
            /\ calls[c].pc = "done"
            /\ calls[c].nClassify = 0
            /\ calls[c].nEmbed = 0
            /\ calls[c].nPipeline = 0
            /\ pipelines = <<>>
            /\ calls[c].response = Response(PromptMessage, FALSE, <<>>)

\* a whitespace-only query of two characters was answered
C5_Witness ==
    \E c \in Slots : IsDone(c) /\ calls[c].query = <<" ", "\t">>

Malformed(res) == res.kind = "batched" \/ Len(res.scores) # Len(res.labels)

Faulted(c) ==
    \/ calls[c].awaiting # 0 /\ pipelines[calls[c].awaiting].state = "rejected"
    \/ calls[c].categoryResults.kind = "raise"
    \/ Malformed(calls[c].categoryResults)
    \/ calls[c].queryEmbeddingOutput.kind = "raise"

(* C6: if backend construction, classify or embed raises, or classify      *)
(* returns a malformed shape, the call returns the trouble message with no *)
(* storeGroups.                                                            *)
C6_FaultGivesTrouble ==
    \A c \in Slots :
        (IsDone(c) /\ Faulted(c)) => IsTrouble(calls[c].response)

(* C7: when both inference calls return, the response is the no-match      *)
(* message with no storeGroups exactly if no store scores above 0.5, and   *)
(* otherwise the found message with a non-empty list of non-empty groups.  *)
C7_NoMatchIffNoSurvivor ==
    \A c \in Slots :
        Scored(c) =>
            IF Survivors(c) = {}
            THEN calls[c].response = Response(NoMatchMessage, FALSE, <<>>)
            ELSE /\ calls[c].response.introMessage = FoundMessage
                 /\ calls[c].response.hasStoreGroups
                 /\ calls[c].response.storeGroups # <<>>
                 /\ \A i \in DOMAIN calls[c].response.storeGroups :
                       calls[c].response.storeGroups[i].stores # <<>>

\* every store scored at most 0.5, one of them exactly 0.5, and the answer was no match
C7_Witness ==
    \E c \in Slots :
        /\ Scored(c)
        /\ calls[c].response.introMessage = NoMatchMessage
        /\ \E s \in Range(calls[c].scoredStores) : s.score = 500

PipelinesOf(task) == {i \in DOMAIN pipelines : pipelines[i].task = task}

(* C8: under every interleaving, the classifier and the extractor are each *)
(* constructed at most once, and every call waiting for a backend waits    *)
(* for the one promise the static field holds.                             *)
C8_SingleConstruction ==
    /\ Cardinality(PipelinesOf(ClassifierTask)) <= 1
    /\ Cardinality(PipelinesOf(ExtractorTask)) <= 1
    /\ \A c \in Slots :
          /\ calls[c].pc = "awaitClassifier" =>
                calls[c].awaiting = classifier /\ classifier \in PipelinesOf(ClassifierTask)
          /\ calls[c].pc = "awaitExtractor" =>
                calls[c].awaiting = extractor /\ extractor \in PipelinesOf(ExtractorTask)

\* two calls wait for the one classifier construction, still in flight
C8_Witness ==
    \E c, d \in Slots :
        /\ c # d
        /\ calls[c].pc = "awaitClassifier"
        /\ calls[d].pc = "awaitClassifier"
        /\ pipelines[classifier].state = "pending"
        /\ calls[d].nPipeline = 0

Outranks(r, u) == r.score > u.score \/ (r.score = u.score /\ r.id < u.id)

(* C9: the returned stores are the first min(5, survivors) of the survivors *)
(* in descending score, ties in catalog order: a survivor left out scores   *)
(* no more than any returned store, and of equal scores the earlier in the  *)
(* catalog comes first.                                                     *)
C9_StableTopFive ==
    \A c \in Slots :
        Scored(c) =>
            LET T == calls[c].topStores
            IN  /\ Len(T) = Min2(5, Cardinality(Survivors(c)))
                /\ Range(T) \subseteq Survivors(c)
                /\ \A i, j \in DOMAIN T : i < j => Outranks(T[i], T[j])
                /\ \A u \in Survivors(c) \ Range(T) : \A r \in Range(T) : Outranks(r, u)
                /\ Range(ReturnedStores(c)) = Range(T)

\* six survivors, and the one the cap dropped ties with the last one kept
C9_Witness ==
    \E c \in Slots :
        /\ Scored(c)
        /\ Cardinality(Survivors(c)) = 6
        /\ \E u \in Survivors(c) \ Range(calls[c].topStores) :
              u.score = calls[c].topStores[5].score
        /\ calls[c].topStores[1].score > calls[c].topStores[5].score

(* C10: no state kept across calls affects a result: a call made after an   *)
(* earlier call failed, which constructs nothing itself and whose own       *)
(* classify and embed calls do not fault, does not end with the trouble     *)
(* message.                                                                 *)
C10_NoCrossCallState ==
    \A c \in Slots :
        ( /\ IsDone(c)
          /\ calls[c].afterFailure
          /\ calls[c].nPipeline = 0
          /\ calls[c].categoryResults.kind \in {"none", "object"}
          /\ ~Malformed(calls[c].categoryResults)
          /\ calls[c].queryEmbeddingOutput.kind \in {"none", "tensor"} )
        => calls[c].response.introMessage # TroubleMessage

====
